---------------------------- MODULE Spec2Model ----------------------------
(***************************************************************************)
(* Model of edx-archive's main() (src/src/index.ts): configuration, browser *)
(* launch, login, task discovery, bounded-concurrency downloads, report,    *)
(* shutdown, and the catch block.  Every rxjs pipeline is modelled by the   *)
(* events that drive it: a capability invocation resolving or rejecting,    *)
(* a retryBackoff timer firing, mergeMap subscribing to an inner pipeline.  *)
(***************************************************************************)
EXTENDS Integers, Sequences, FiniteSets

VARIABLES
    pc,           \* position of main(): the statement it is at or awaiting
    retries,      \* configuration.retries (backoffConfig.maxRetries)
    concurrency,  \* configuration.concurrency (mergeMap's concurrent)
    browser,      \* "none" | "launching" | "open" | "closing" | "closed"
    launchCalls,  \* number of puppeteer.launch() invocations
    closeCalls,   \* number of browser.close() invocations
    reportCalls,  \* number of downloader.reportResults() invocations
    reported,     \* the argument of the last reportResults() call
    exitCode,     \* -1 while the process runs, else its exit status
    failedIn,     \* which statement threw into the catch block ("none" if none)
    login,        \* retry sequence of the login pipeline
    discover,     \* retry sequence of the discovery pipeline
    emitted,      \* toArray() buffer of the current discovery subscription
    tasks,        \* the materialized task array (const tasks)
    dl,           \* per task (by position in tasks): its inner retry sequence
    results,      \* toArray() buffer of the download pipeline (const results)
    caught,       \* the error retryBackoff received in the latest step and the
                  \* pipeline it came from (error "none" if the step had none)
    logged        \* what console.error printed in the catch block ("none" if nothing)

vars == <<pc, retries, concurrency, browser, launchCalls, closeCalls, reportCalls,
          reported, exitCode, failedIn, login, discover, emitted, tasks, dl, results,
          caught, logged>>

-----------------------------------------------------------------------------
(* Bounds of the model *)
MaxRetries == 1
MaxConcurrency == 2
MaxTasks == 3
MaxBackoffRetries == 6

(* backoffConfig, index.ts:79-83 *)
initialInterval == 5000
maxInterval == 60000

-----------------------------------------------------------------------------
(* Pure helpers *)

Min(a, b) == IF a <= b THEN a ELSE b

RECURSIVE Pow2(_)
Pow2(n) == IF n = 0 THEN 1 ELSE 2 * Pow2(n - 1)

\* backoff-rxjs: exponentialBackoffDelay(iteration, initialInterval)
exponentialBackoffDelay(iteration, initial) == Pow2(iteration) * initial

\* mutant of getDelay: maxInterval is ignored
getDelayUncapped(backoffDelay, maxI) == backoffDelay

\* backoff-rxjs: getDelay(backoffDelay, maxInterval)
getDelay(backoffDelay, maxI) == Min(backoffDelay, maxI)

\* A retry sequence: one subscription to a pipeline ending in retryBackoff.
\*   st       "idle" (not subscribed), "buffered" (held in mergeMap's buffer),
\*            "running" (capability invoked, not settled), "waiting" (backoff
\*            timer pending), "ok" (completed), "error" (error propagated),
\*            "unsubscribed" (torn down by an error elsewhere)
\*   calls    invocations of the capability
\*   inflight invocations of the capability not yet settled
\*   index    retryBackoff's counter: errors it has seen
\*   delays   the timer delays it has produced, in order
NewOp(state) == [st |-> state, calls |-> 0, inflight |-> 0, index |-> 0, delays |-> <<>>]

\* (re)subscription to the source: flatMap invokes the capability
Invoke(op) == [op EXCEPT !.st = "running", !.calls = @ + 1, !.inflight = @ + 1]

\* the capability's promise/stream completed
Settle(op) == [op EXCEPT !.st = "ok", !.inflight = @ - 1]

\* mutant of retryBackoff: one retry too many (attempt <= maxRetries)
retryBackoffOffByOne(op, maxRetries) ==
    LET attempt == op.index
        failed  == [op EXCEPT !.index = @ + 1, !.inflight = @ - 1]
    IN  IF attempt <= maxRetries
        THEN [failed EXCEPT !.st = "waiting",
                            !.delays = Append(@, getDelay(exponentialBackoffDelay(attempt, initialInterval),
                                                           maxInterval))]
        ELSE [failed EXCEPT !.st = "error"]

\* retryBackoff on an error of the source:
\*   const attempt = index++
\*   attempt < maxRetries ? timer(getDelay(backoffDelay(attempt, initialInterval), maxInterval))
\*                        : throwError(error)
retryBackoff(op, maxRetries) ==
    LET attempt == op.index
        failed  == [op EXCEPT !.index = @ + 1, !.inflight = @ - 1]
    IN  IF attempt < maxRetries
        THEN [failed EXCEPT !.st = "waiting",
                            !.delays = Append(@, getDelay(exponentialBackoffDelay(attempt, initialInterval),
                                                           maxInterval))]
        ELSE [failed EXCEPT !.st = "error"]

\* the errors a capability can throw: the orchestrator is handed an opaque
\* error; "fatal" is one the capability means as non-retryable
Errors == {"transient", "fatal"}

NoError == [error |-> "none", where |-> "none", task |-> 0]

\* mutant of shouldRetry: an error marked non-retryable is not retried
shouldRetryUnlessFatal(error) == error # "fatal"

\* backoffConfig sets no shouldRetry: retryBackoff's default, () => true
shouldRetry(error) == TRUE

\* retryBackoff's test on an error: attempt < maxRetries && shouldRetry(error)
retryBackoffOnError(op, maxRetries, error) ==
    IF shouldRetry(error) THEN retryBackoff(op, maxRetries) ELSE retryBackoff(op, 0)

-----------------------------------------------------------------------------
(* mergeMap(project, concurrency) over from(tasks) *)

\* mergeMap's `active`: inner subscriptions not yet completed
Active(d) == Cardinality({i \in DOMAIN d : d[i].st \in {"running", "waiting"}})

\* mergeMap's `buffer`: tasks received but not yet subscribed
Buffer(d) == {i \in DOMAIN d : d[i].st = "buffered"}

BufferHead(d) == CHOOSE i \in Buffer(d) : \A j \in Buffer(d) : i <= j

\* mutant of mergeMapNext: the concurrent argument is dropped, every task is
\* subscribed at once
mergeMapNextUnbounded(d, i, concurrent) == [j \in DOMAIN d |-> Invoke(d[j])]

\* mutant of mergeMapNext: a task arriving while the limit is reached is
\* dropped instead of buffered
RECURSIVE mergeMapNextDropping(_, _, _)
mergeMapNextDropping(d, i, concurrent) ==
    IF i > Len(d) THEN d
    ELSE IF Active(d) < concurrent
         THEN mergeMapNextDropping([d EXCEPT ![i] = Invoke(@)], i + 1, concurrent)
         ELSE d

\* _next(value): if (active < concurrent) _tryNext(value) else buffer.push(value)
\* from(tasks) delivers every task synchronously at subscription
RECURSIVE mergeMapNext(_, _, _)
mergeMapNext(d, i, concurrent) ==
    IF i > Len(d) THEN d
    ELSE IF Active(d) < concurrent
         THEN mergeMapNext([d EXCEPT ![i] = Invoke(@)], i + 1, concurrent)
         ELSE mergeMapNext([d EXCEPT ![i].st = "buffered"], i + 1, concurrent)

\* mutant of mergeMapInnerComplete: tasks are run in groups, the next one is
\* taken from the buffer only when no inner subscription is active
mergeMapInnerCompleteBarrier(d, concurrent) ==
    IF Buffer(d) # {} /\ Active(d) = 0
    THEN [d EXCEPT ![BufferHead(d)] = Invoke(@)]
    ELSE d

\* mutant of mergeMapInnerComplete: nothing is taken from the buffer while
\* some inner subscription waits in its backoff
mergeMapInnerCompleteBlocked(d, concurrent) ==
    IF Buffer(d) # {} /\ Active(d) < concurrent /\ \A i \in DOMAIN d : d[i].st # "waiting"
    THEN [d EXCEPT ![BufferHead(d)] = Invoke(@)]
    ELSE d

\* mutant of mergeMapInnerComplete: the buffer is never read again
mergeMapInnerCompleteNoRefill(d, concurrent) == d

\* notifyComplete(inner): active--; if (buffer.length > 0) _next(buffer.shift())
mergeMapInnerComplete(d, concurrent) ==
    IF Buffer(d) # {} /\ Active(d) < concurrent
    THEN [d EXCEPT ![BufferHead(d)] = Invoke(@)]
    ELSE d

\* mutant of mergeMapCompleted: completes with the source, not waiting for the
\* active inner subscriptions
mergeMapCompletedEarly(d) == Buffer(d) = {}

\* mutant of mergeMapInnerWaiting: a task that starts waiting gives up its
\* slot, and the next buffered task is started into it
mergeMapInnerWaitingReleases(d, concurrent) ==
    IF Buffer(d) # {} THEN [d EXCEPT ![BufferHead(d)] = Invoke(@)] ELSE d

\* an inner error that retryBackoff answers with a timer never reaches
\* mergeMap: the inner subscription stays active and nothing is taken from
\* the buffer
mergeMapInnerWaiting(d, concurrent) == d

\* mutant of mergeMapCompleted: completion is only looked at when an inner
\* subscription completes, so with no task at all it never happens
mergeMapCompletedAfterInner(d) == d # <<>> /\ Active(d) = 0 /\ Buffer(d) = {}

\* outer completion: hasCompleted && active === 0 && buffer.length === 0
mergeMapCompleted(d) == Active(d) = 0 /\ Buffer(d) = {}

\* mutant of mergeMapError: the inner subscriptions are left as they are
mergeMapErrorNoTeardown(d) == d

\* an inner error is forwarded to the destination and every inner subscription
\* is torn down; promises already started are not cancelled
mergeMapError(d) ==
    [i \in DOMAIN d |->
        IF d[i].st \in {"running", "waiting"} THEN [d[i] EXCEPT !.st = "unsubscribed"] ELSE d[i]]

-----------------------------------------------------------------------------
TypeOK ==
    /\ pc \in {"config", "launch", "launching", "login", "loggingIn", "discover", "discovering",
               "download", "downloading", "report", "close", "closing", "done", "failed", "exited"}
    /\ retries \in Nat
    /\ concurrency \in 0..MaxConcurrency
    /\ browser \in {"none", "launching", "open", "closing", "closed"}
    /\ exitCode \in {-1, 0, 1}
    /\ caught.error \in {"none"} \cup Errors
    /\ caught.where \in {"none", "login", "discover", "download"}
    /\ logged \in {"none", "launch", "login", "discover", "download", "report", "close"}

Init ==
    /\ pc = "config"
    /\ retries \in 0..MaxRetries
    /\ concurrency \in 0..MaxConcurrency
    /\ browser = "none"
    /\ launchCalls = 0
    /\ closeCalls = 0
    /\ reportCalls = 0
    /\ reported = <<>>
    /\ exitCode = -1
    /\ failedIn = "none"
    /\ login = NewOp("idle")
    /\ discover = NewOp("idle")
    /\ emitted = <<>>
    /\ tasks = <<>>
    /\ dl = <<>>
    /\ results = <<>>
    /\ caught = NoError
    /\ logged = "none"


-----------------------------------------------------------------------------
(* main(): the statements between awaits, and the events they await *)

\* mutant of Await: the pipeline's error is swallowed and main() goes on
AwaitSwallow(op, here, next) ==
    CASE op.st = "ok"    -> next
      [] op.st = "error" -> next
      [] OTHER           -> here

\* mutant of Await: the await is missing, main() goes on at once
AwaitMissing(op, here, next) == IF op.st = "error" THEN "failed" ELSE next

\* mutant of processExit: the status passed is lost and the process ends
\* with status 0
processExitZero(code) == [pc |-> "exited", exitCode |-> 0]

\* process.exit(code), lines 50 and 147
processExit(code) == [pc |-> "exited", exitCode |-> code]

\* await <pipeline>.toPromise() inside the try block: main() stays `here` until
\* the pipeline completes (then goes on to `next`) or errors (then the catch
\* block runs)
Await(op, here, next) ==
    CASE op.st = "ok"    -> next
      [] op.st = "error" -> "failed"
      [] OTHER           -> here

\* line 74: await getConfiguration(); the course url is matched against
\* courseUrlPattern and a mismatch ends the process (lines 48-51)
GetConfiguration ==
    /\ pc = "config"
    /\ \E valid \in BOOLEAN :
          IF valid
          THEN /\ pc' = "launch"
               /\ UNCHANGED exitCode
          ELSE /\ pc' = processExit(1).pc
               /\ exitCode' = processExit(1).exitCode
    /\ caught' = NoError
    /\ UNCHANGED <<logged, retries, concurrency, browser, launchCalls, closeCalls, reportCalls, reported,
                   failedIn, login, discover, emitted, tasks, dl, results>>

\* line 96: puppeteer.launch() is invoked
Launch ==
    /\ pc = "launch"
    /\ pc' = "launching"
    /\ launchCalls' = launchCalls + 1
    /\ browser' = "launching"
    /\ caught' = NoError
    /\ UNCHANGED <<logged, retries, concurrency, closeCalls, reportCalls, reported, exitCode, failedIn,
                   login, discover, emitted, tasks, dl, results>>

\* line 96: browser = await puppeteer.launch() resolves
LaunchResolve ==
    /\ pc = "launching"
    /\ pc' = "login"
    /\ browser' = "open"
    /\ caught' = NoError
    /\ UNCHANGED <<logged, retries, concurrency, launchCalls, closeCalls, reportCalls, reported, exitCode,
                   failedIn, login, discover, emitted, tasks, dl, results>>

\* line 96: puppeteer.launch() rejects; browser stays undefined
LaunchReject ==
    /\ pc = "launching"
    /\ pc' = "failed"
    /\ failedIn' = "launch"
    /\ browser' = "none"
    /\ caught' = NoError
    /\ UNCHANGED <<logged, retries, concurrency, launchCalls, closeCalls, reportCalls, reported, exitCode,
                   login, discover, emitted, tasks, dl, results>>

\* lines 100-106: the login pipeline is subscribed by toPromise()
LoginSubscribe ==
    /\ pc = "login"
    /\ login' = Invoke(login)
    /\ pc' = Await(login', "loggingIn", "discover")
    /\ caught' = NoError
    /\ UNCHANGED <<logged, retries, concurrency, browser, launchCalls, closeCalls, reportCalls, reported,
                   exitCode, failedIn, discover, emitted, tasks, dl, results>>

\* line 103: downloader.login resolves; the pipeline completes
LoginResolve ==
    /\ pc = "loggingIn"
    /\ login.st = "running"
    /\ login' = Settle(login)
    /\ pc' = Await(login', "loggingIn", "discover")
    /\ caught' = NoError
    /\ UNCHANGED <<logged, retries, concurrency, browser, launchCalls, closeCalls, reportCalls, reported,
                   exitCode, failedIn, discover, emitted, tasks, dl, results>>

\* lines 103-105: downloader.login rejects; retryBackoff decides
LoginReject ==
    /\ pc = "loggingIn"
    /\ login.st = "running"
    /\ \E error \in Errors :
          /\ login' = retryBackoffOnError(login, retries, error)
          /\ caught' = [error |-> error, where |-> "login", task |-> 0]
    /\ pc' = Await(login', "loggingIn", "discover")
    /\ failedIn' = IF pc' = "failed" THEN "login" ELSE failedIn
    /\ UNCHANGED <<logged, retries, concurrency, browser, launchCalls, closeCalls, reportCalls, reported,
                   exitCode, discover, emitted, tasks, dl, results>>

\* line 105: the backoff timer fires; the source is resubscribed
LoginRetry ==
    /\ pc = "loggingIn"
    /\ login.st = "waiting"
    /\ login' = Invoke(login)
    /\ caught' = NoError
    /\ UNCHANGED <<pc, logged, retries, concurrency, browser, launchCalls, closeCalls, reportCalls,
                   reported, exitCode, failedIn, discover, emitted, tasks, dl, results>>

\* lines 109-118: the discovery pipeline is subscribed by toPromise()
DiscoverSubscribe ==
    /\ pc = "discover"
    /\ discover' = Invoke(discover)
    /\ pc' = Await(discover', "discovering", "download")
    /\ emitted' = <<>>
    /\ caught' = NoError
    /\ UNCHANGED <<logged, retries, concurrency, browser, launchCalls, closeCalls, reportCalls, reported,
                   exitCode, failedIn, login, tasks, dl, results>>

\* toArray(): every value of the source is pushed to the buffer
toArrayNext(buffer, value) == Append(buffer, value)

\* a task emitted by getDownloadTasks: its number in the stream and the
\* invocation that produced it
NewTask(buffer, op) == [id |-> Len(buffer) + 1, run |-> op.calls]

\* lines 112-115: getDownloadTasks emits a task; toArray() buffers it
DiscoverEmit ==
    /\ pc = "discovering"
    /\ discover.st = "running"
    /\ Len(emitted) < MaxTasks
    /\ emitted' = toArrayNext(emitted, NewTask(emitted, discover))
    /\ caught' = NoError
    /\ UNCHANGED <<pc, logged, retries, concurrency, browser, launchCalls, closeCalls, reportCalls,
                   reported, exitCode, failedIn, login, discover, tasks, dl, results>>

\* lines 115-118: the stream completes; toArray() emits its buffer, which
\* becomes `tasks`
DiscoverComplete ==
    /\ pc = "discovering"
    /\ discover.st = "running"
    /\ discover' = Settle(discover)
    /\ tasks' = emitted
    /\ emitted' = <<>>
    /\ pc' = Await(discover', "discovering", "download")
    /\ caught' = NoError
    /\ UNCHANGED <<logged, retries, concurrency, browser, launchCalls, closeCalls, reportCalls, reported,
                   exitCode, failedIn, login, dl, results>>

\* mutant of toArrayOnError: the buffer survives the failed subscription
toArrayOnErrorKeep(buffer) == buffer

\* toArray() sits inside the retried source: its buffer dies with the failed
\* subscription
toArrayOnError(buffer) == <<>>

\* lines 112-117: the stream errors; retryBackoff decides
DiscoverReject ==
    /\ pc = "discovering"
    /\ discover.st = "running"
    /\ \E error \in Errors :
          /\ discover' = retryBackoffOnError(discover, retries, error)
          /\ caught' = [error |-> error, where |-> "discover", task |-> 0]
    /\ emitted' = toArrayOnError(emitted)
    /\ pc' = Await(discover', "discovering", "download")
    /\ failedIn' = IF pc' = "failed" THEN "discover" ELSE failedIn
    /\ UNCHANGED <<logged, retries, concurrency, browser, launchCalls, closeCalls, reportCalls, reported,
                   exitCode, login, tasks, dl, results>>

\* line 117: the backoff timer fires; getDownloadTasks is invoked again
DiscoverRetry ==
    /\ pc = "discovering"
    /\ discover.st = "waiting"
    /\ discover' = Invoke(discover)
    /\ caught' = NoError
    /\ UNCHANGED <<pc, logged, retries, concurrency, browser, launchCalls, closeCalls, reportCalls,
                   reported, exitCode, failedIn, login, emitted, tasks, dl, results>>

\* lines 121-136: the download pipeline is subscribed; from(tasks) feeds every
\* task to mergeMap, which subscribes to the first `concurrency` of them; with
\* no task at all toArray() emits [] at once
DownloadSubscribe ==
    /\ pc = "download"
    /\ dl' = mergeMapNext([i \in 1..Len(tasks) |-> NewOp("idle")], 1, concurrency)
    /\ results' = <<>>
    /\ pc' = IF mergeMapCompleted(dl') THEN "report" ELSE "downloading"
    /\ caught' = NoError
    /\ UNCHANGED <<logged, retries, concurrency, browser, launchCalls, closeCalls, reportCalls, reported,
                   exitCode, failedIn, login, discover, emitted, tasks>>

\* lines 129-135: performDownload(task i) resolves; its result goes to
\* toArray(), the inner pipeline completes and mergeMap takes the next task
\* from its buffer; when nothing is left toArray() emits the results
DownloadResolve(i) ==
    /\ pc = "downloading"
    /\ dl[i].st = "running"
    /\ results' = toArrayNext(results, i)
    /\ dl' = mergeMapInnerComplete([dl EXCEPT ![i] = Settle(@)], concurrency)
    /\ pc' = IF mergeMapCompleted(dl') THEN "report" ELSE pc
    /\ caught' = NoError
    /\ UNCHANGED <<logged, retries, concurrency, browser, launchCalls, closeCalls, reportCalls, reported,
                   exitCode, failedIn, login, discover, emitted, tasks>>

\* mutant of DownloadError: the inner pipeline catches its error, the task
\* counts as completed and the batch goes on
DownloadErrorRecorded(d, i, buffer) ==
    LET d2 == mergeMapInnerComplete(d, concurrency)
    IN  [dl |-> d2, results |-> Append(buffer, i),
         pc |-> IF mergeMapCompleted(d2) THEN "report" ELSE "downloading",
         failedIn |-> failedIn]

\* lines 125-136: task i's retryBackoff gave up: nothing catches the error in
\* the inner pipeline, so it goes through mergeMap and toArray() to
\* toPromise(), which rejects into the catch block; toArray() emits nothing
DownloadError(d, i, buffer) ==
    [dl |-> mergeMapError(d), results |-> buffer, pc |-> "failed", failedIn |-> "download"]

\* lines 129-131: performDownload(task i) rejects; the task's own retryBackoff
\* decides
DownloadReject(i) ==
    /\ pc = "downloading"
    /\ dl[i].st = "running"
    /\ \E error \in Errors :
         LET op == retryBackoffOnError(dl[i], retries, error)
             d  == [dl EXCEPT ![i] = op]
             out == DownloadError(d, i, results)
         IN  /\ caught' = [error |-> error, where |-> "download", task |-> i]
             /\ IF op.st = "error"
                THEN /\ dl' = out.dl
                     /\ results' = out.results
                     /\ pc' = out.pc
                     /\ failedIn' = out.failedIn
                ELSE /\ dl' = mergeMapInnerWaiting(d, concurrency)
                     /\ UNCHANGED <<pc, failedIn, results>>
    /\ UNCHANGED <<logged, retries, concurrency, browser, launchCalls, closeCalls, reportCalls, reported,
                   exitCode, login, discover, emitted, tasks>>

\* line 131: task i's backoff timer fires; performDownload is invoked again
DownloadRetry(i) ==
    /\ exitCode = -1
    /\ dl[i].st = "waiting"
    /\ dl' = [dl EXCEPT ![i] = Invoke(@)]
    /\ caught' = NoError
    /\ UNCHANGED <<pc, logged, retries, concurrency, browser, launchCalls, closeCalls, reportCalls,
                   reported, exitCode, failedIn, login, discover, emitted, tasks, results>>

\* line 139: downloader.reportResults(results), which returns or throws
Report ==
    /\ pc = "report"
    /\ reportCalls' = reportCalls + 1
    /\ reported' = results
    /\ \E throws \in BOOLEAN :
          IF throws
          THEN pc' = "failed" /\ failedIn' = "report"
          ELSE pc' = "close" /\ UNCHANGED failedIn
    /\ caught' = NoError
    /\ UNCHANGED <<logged, retries, concurrency, browser, launchCalls, closeCalls, exitCode, login,
                   discover, emitted, tasks, dl, results>>

\* line 142: browser.close() is invoked
Close ==
    /\ pc = "close"
    /\ pc' = "closing"
    /\ closeCalls' = closeCalls + 1
    /\ browser' = "closing"
    /\ caught' = NoError
    /\ UNCHANGED <<logged, retries, concurrency, launchCalls, reportCalls, reported, exitCode, failedIn,
                   login, discover, emitted, tasks, dl, results>>

\* lines 142-143: await browser.close() resolves; "Done." and main() returns
CloseResolve ==
    /\ pc = "closing"
    /\ pc' = "done"
    /\ browser' = "closed"
    /\ exitCode' = 0
    /\ caught' = NoError
    /\ UNCHANGED <<logged, retries, concurrency, launchCalls, closeCalls, reportCalls, reported, failedIn,
                   login, discover, emitted, tasks, dl, results>>

\* line 142: await browser.close() rejects
CloseReject ==
    /\ pc = "closing"
    /\ pc' = "failed"
    /\ failedIn' = "close"
    /\ caught' = NoError
    /\ UNCHANGED <<logged, retries, concurrency, browser, launchCalls, closeCalls, reportCalls, reported,
                   exitCode, login, discover, emitted, tasks, dl, results>>

\* mutant of CatchClose: the catch block exits without closing the browser
CatchCloseSkipped(b, calls) == [browser |-> b, closeCalls |-> calls]

\* line 146: browser?.close() -- invoked when browser is set, never awaited
CatchClose(b, calls) ==
    IF b = "none"
    THEN [browser |-> "none", closeCalls |-> calls]
    ELSE [browser |-> "closing", closeCalls |-> calls + 1]

\* lines 144-148: console.error(e); browser?.close(); process.exit(1)
Catch ==
    /\ pc = "failed"
    /\ logged' = failedIn
    /\ closeCalls' = CatchClose(browser, closeCalls).closeCalls
    /\ browser' = CatchClose(browser, closeCalls).browser
    /\ exitCode' = processExit(1).exitCode
    /\ pc' = processExit(1).pc
    /\ caught' = NoError
    /\ UNCHANGED <<retries, concurrency, launchCalls, reportCalls, reported, failedIn, login,
                   discover, emitted, tasks, dl, results>>

Next ==
    \/ GetConfiguration
    \/ Launch
    \/ LaunchResolve
    \/ LaunchReject
    \/ LoginSubscribe
    \/ LoginResolve
    \/ LoginReject
    \/ LoginRetry
    \/ DiscoverSubscribe
    \/ DiscoverEmit
    \/ DiscoverComplete
    \/ DiscoverReject
    \/ DiscoverRetry
    \/ DownloadSubscribe
    \/ \E i \in DOMAIN dl : DownloadResolve(i)
    \/ \E i \in DOMAIN dl : DownloadReject(i)
    \/ \E i \in DOMAIN dl : DownloadRetry(i)
    \/ Report
    \/ Close
    \/ CloseResolve
    \/ CloseReject
    \/ Catch

Spec == Init /\ [][Next]_vars

\* every settled promise, expired timer and continuation of main() is
\* eventually run by the event loop
SpecLive == Init /\ [][Next]_vars /\ WF_vars(Next)

-----------------------------------------------------------------------------
(* A single run restricted to the two phase-level retry sequences, with the   *)
(* retry budget drawn from a range wide enough for the delay to reach         *)
(* maxInterval.                                                               *)
InitBackoff ==
    /\ pc = "config"
    /\ retries \in 0..MaxBackoffRetries
    /\ concurrency = 1
    /\ browser = "none"
    /\ launchCalls = 0
    /\ closeCalls = 0
    /\ reportCalls = 0
    /\ reported = <<>>
    /\ exitCode = -1
    /\ failedIn = "none"
    /\ login = NewOp("idle")
    /\ discover = NewOp("idle")
    /\ emitted = <<>>
    /\ tasks = <<>>
    /\ dl = <<>>
    /\ results = <<>>
    /\ caught = NoError
    /\ logged = "none"

NextBackoff ==
    \/ GetConfiguration
    \/ Launch
    \/ LaunchResolve
    \/ LaunchReject
    \/ LoginSubscribe
    \/ LoginResolve
    \/ LoginReject
    \/ LoginRetry
    \/ DiscoverSubscribe
    \/ DiscoverEmit
    \/ DiscoverComplete
    \/ DiscoverReject
    \/ DiscoverRetry
    \/ Catch

SpecBackoff == InitBackoff /\ [][NextBackoff]_vars

-----------------------------------------------------------------------------
(* Vocabulary of the properties *)

RECURSIVE SumInflight(_, _)
SumInflight(d, n) == IF n = 0 THEN 0 ELSE d[n].inflight + SumInflight(d, n - 1)

\* performDownload invocations that have not settled
DownloadsInFlight == SumInflight(dl, Len(dl))

RECURSIVE SumCalls(_, _)
SumCalls(d, n) == IF n = 0 THEN 0 ELSE d[n].calls + SumCalls(d, n - 1)

\* performDownload invocations so far
DownloadCalls == SumCalls(dl, Len(dl))

\* how many entries of the result array belong to task i
ResultsOf(i) == Cardinality({k \in DOMAIN results : results[k] = i})

Terminal == pc \in {"done", "exited"}
Failed == pc \in {"failed", "exited"}

\* the download phase is over, by completion or by error
DownloadConcluded == discover.st = "ok" /\ pc \notin {"download", "downloading"}

\* the download phase completed: toPromise() resolved with the result array
DownloadCompleted == pc \in {"report", "close", "closing", "done"} \/ reportCalls > 0

-----------------------------------------------------------------------------
\* C1: at every moment the number of performDownload invocations that have
\* not settled is at most the configured concurrency, whatever the number of
\* tasks (none, fewer than the limit, more than the limit), and so is the
\* number of inner pipelines mergeMap holds subscribed.
C1_BoundedConcurrency ==
    /\ DownloadsInFlight <= concurrency
    /\ pc = "downloading" => Active(dl) <= concurrency

\* C1 witness: the limit is reached with a task still held back
C1_Witness ==
    /\ pc = "downloading"
    /\ concurrency = 2
    /\ Len(tasks) = 3
    /\ DownloadsInFlight = 2
    /\ Buffer(dl) # {}

\* C2 (as amended): when the download phase completes, the result array holds
\* exactly one entry per discovered task; when a task exhausts its retries the
\* phase ends with an error instead, the errored task has no entry and the
\* array is never handed on.
C2_OneResultPerTask ==
    /\ DownloadCompleted =>
          /\ Len(results) = Len(tasks)
          /\ \A i \in 1..Len(tasks) : ResultsOf(i) = 1
    /\ failedIn = "download" =>
          /\ Len(results) < Len(tasks)
          /\ reportCalls = 0

\* C2 witness: three tasks completed, one of them after a retry, in an order
\* that is not the input order
C2_Witness ==
    /\ pc = "report"
    /\ Len(tasks) = 3
    /\ results[1] # 1
    /\ \E i \in DOMAIN dl : dl[i].index > 0

\* C2 as stated: however the download phase ends, the result array has one
\* entry per discovered task.
C2_Original == DownloadConcluded => Len(results) = Len(tasks)

\* C3 (as amended): when a task's download fails on all maxRetries+1 attempts
\* the download phase is aborted: no result is recorded for the task, every
\* other subscribed task is unsubscribed, buffered tasks are never started,
\* report is not invoked and the run goes to the catch block (exit status 1).
C3_ExhaustedTaskAborts ==
    \A i \in DOMAIN dl :
        dl[i].st = "error" =>
            /\ dl[i].calls = retries + 1
            /\ Failed
            /\ failedIn = "download"
            /\ ResultsOf(i) = 0
            /\ \A j \in DOMAIN dl : dl[j].st \in {"error", "ok", "unsubscribed", "buffered"}
            /\ reportCalls = 0
            /\ pc = "exited" => exitCode = 1

\* C3 witness: one task exhausted its retries while another was still running
\* and a third had not been started
C3_Witness ==
    /\ pc = "exited"
    /\ retries = 1
    /\ \E i, j, k \in DOMAIN dl :
          /\ dl[i].st = "error"
          /\ dl[j].st = "unsubscribed"
          /\ dl[k].st = "buffered"

\* C3 as stated: a task that exhausted its retries does not send the run to
\* Failed.
C3_Original == \A i \in DOMAIN dl : dl[i].st = "error" => ~Failed

\* C4 (as amended): report is invoked at most once; when it is invoked,
\* authentication and discovery have succeeded, every discovered task has
\* completed successfully and the argument is the full result array; a run
\* that ends after all downloads succeeded has invoked it exactly once, and a
\* run in which a task exhausted its retries never invokes it.
C4_ReportOnce ==
    /\ reportCalls <= 1
    /\ reportCalls = 1 =>
          /\ login.st = "ok" /\ discover.st = "ok"
          /\ Len(dl) = Len(tasks)
          /\ \A i \in DOMAIN dl : dl[i].st = "ok"
          /\ reported = results
    /\ (Terminal /\ discover.st = "ok" /\ failedIn # "download") => reportCalls = 1
    /\ (\E i \in DOMAIN dl : dl[i].st = "error") => reportCalls = 0

\* C4 witness: the run is done, report was called once with three results,
\* one of the tasks having needed a retry
C4_Witness ==
    /\ pc = "done"
    /\ reportCalls = 1
    /\ Len(reported) = 3
    /\ \E i \in DOMAIN dl : dl[i].index > 0

\* C4 as stated: every run that ends after authentication and discovery
\* succeeded has invoked report exactly once.
C4_Original == (Terminal /\ login.st = "ok" /\ discover.st = "ok") => reportCalls = 1

\* C5: when login errors after maxRetries+1 invocations the run is Failed and
\* getDownloadTasks, performDownload and reportResults were never invoked;
\* when discovery errors after maxRetries+1 invocations the run is Failed and
\* performDownload and reportResults were never invoked.
C5_PhaseExhaustionAborts ==
    /\ login.st = "error" =>
          /\ login.calls = retries + 1
          /\ Failed
          /\ discover.calls = 0 /\ DownloadCalls = 0 /\ reportCalls = 0
    /\ discover.st = "error" =>
          /\ discover.calls = retries + 1
          /\ Failed
          /\ DownloadCalls = 0 /\ dl = <<>> /\ reportCalls = 0

\* C5 witness: discovery gave up after two invocations (one retry allowed)
\* and the process exited
C5_Witness ==
    /\ pc = "exited"
    /\ retries = 1
    /\ discover.st = "error"
    /\ discover.calls = 2

\* C6: getDownloadTasks is invoked only after login succeeded; performDownload
\* is invoked only after discovery succeeded and `tasks` is materialized;
\* login and getDownloadTasks each have at most one invocation in flight, and
\* invocations of different phases are never in flight together.
C6_PhasesInOrder ==
    /\ discover.calls > 0 => login.st = "ok"
    /\ DownloadCalls > 0 =>
          /\ discover.st = "ok"
          /\ emitted = <<>>
          /\ Len(dl) = Len(tasks)
    /\ login.inflight <= 1
    /\ discover.inflight <= 1
    /\ login.inflight > 0 => discover.inflight = 0 /\ DownloadsInFlight = 0
    /\ discover.inflight > 0 => DownloadsInFlight = 0

\* C6 witness: downloads are in flight after login and discovery both needed
\* a retry
C6_Witness ==
    /\ pc = "downloading"
    /\ DownloadsInFlight = 2
    /\ login.index > 0
    /\ discover.index > 0

\* the attempt accounting of one retry sequence
C7_Sequence(op) ==
    /\ op.calls <= retries + 1
    /\ op.st = "ok" =>
          /\ op.calls = op.index + 1
          /\ Len(op.delays) = op.index
          /\ op.index <= retries
    /\ op.st = "error" =>
          /\ op.calls = retries + 1
          /\ op.index = retries + 1
          /\ Len(op.delays) = retries
          /\ Failed

\* C7: every retry sequence (login, discovery, each task) counts on its own:
\* one that completed after k-1 errors made exactly k invocations and k-1
\* backoff waits, with k <= maxRetries+1, and a completed task has exactly one
\* result; one that errored made exactly maxRetries+1 invocations and
\* maxRetries waits, and the error reached the catch block.
C7_AttemptsPerOperation ==
    /\ C7_Sequence(login)
    /\ C7_Sequence(discover)
    /\ \A i \in DOMAIN dl :
          /\ C7_Sequence(dl[i])
          /\ dl[i].st = "ok" => ResultsOf(i) = 1

\* C7 witness: a task completed on its second invocation, after one wait,
\* and another task used up both of its invocations (one retry allowed)
C7_Witness ==
    /\ retries = 1
    /\ \E i, j \in DOMAIN dl :
          /\ dl[i].st = "ok" /\ dl[i].calls = 2 /\ Len(dl[i].delays) = 1 /\ ResultsOf(i) = 1
          /\ dl[j].st = "error" /\ dl[j].calls = 2 /\ Len(dl[j].delays) = 1

\* the delays of one retry sequence
C8_Delays(op) ==
    /\ \A k \in DOMAIN op.delays :
          /\ op.delays[k] = (IF 5000 * (2 ^ (k - 1)) <= 60000 THEN 5000 * (2 ^ (k - 1)) ELSE 60000)
          /\ op.delays[k] <= 60000
          /\ k > 1 => op.delays[k - 1] <= op.delays[k]
    /\ Len(op.delays) <= retries
    /\ op.st = "error" => op.index = retries + 1 /\ Len(op.delays) = retries

\* C8: the k-th backoff delay of a retry sequence is min(5000 * 2^(k-1), 60000);
\* the delays never decrease and never exceed 60000; there are at most
\* maxRetries of them, and the error after invocation maxRetries+1 produces
\* none.
C8_BackoffDelay == C8_Delays(login) /\ C8_Delays(discover)

\* C8 witness: a login that gave up after six retries, the fourth wait being
\* 40000 ms and the fifth and sixth capped at 60000 ms
C8_Witness ==
    /\ retries = 6
    /\ login.st = "error"
    /\ login.delays = <<5000, 10000, 20000, 40000, 60000, 60000>>

\* C9: the browser is launched at most once and before login is first
\* invoked; a run that ends after the launch resolved has invoked
\* browser.close(), whichever statement it ended in.
C9_ReleaseInvoked ==
    /\ launchCalls <= 1
    /\ login.calls > 0 => launchCalls = 1 /\ browser \notin {"none", "launching"}
    /\ Terminal =>
          /\ browser \in {"none", "closing", "closed"}
          /\ browser # "none" => closeCalls >= 1
          /\ browser = "none" => failedIn \in {"none", "launch"} /\ login.calls = 0

\* C9 witness: reportResults threw and the process exited with close invoked
C9_Witness ==
    /\ pc = "exited"
    /\ failedIn = "report"
    /\ closeCalls = 1
    /\ browser = "closing"

\* C10: the process never has exited while a browser.close() it invoked is
\* still pending.
C10_ExitAfterRelease == pc = "exited" => browser \in {"none", "closed"}

\* the retry sequence whose error retryBackoff received in the latest step
CaughtOp ==
    CASE caught.where = "login"    -> login
      [] caught.where = "discover" -> discover
      [] caught.where = "download" -> dl[caught.task]

\* C11 (as amended): an error of a capability is never treated as
\* non-retryable: whether or not the capability means it as fatal, the
\* operation is retried after a backoff wait while it has failed at most
\* maxRetries times, and the run goes to Failed only when the operation has
\* failed maxRetries+1 times.
C11_FatalIsRetried ==
    caught.error # "none" =>
        /\ CaughtOp.index <= retries => CaughtOp.st = "waiting" /\ ~Failed
        /\ CaughtOp.index > retries => CaughtOp.st = "error" /\ Failed

\* C11 witness: a download threw a fatal error on its first invocation, with
\* one retry allowed, and its retry timer is pending
C11_Witness ==
    /\ caught.error = "fatal"
    /\ caught.where = "download"
    /\ retries = 1
    /\ dl[caught.task].calls = 1
    /\ dl[caught.task].st = "waiting"
    /\ pc = "downloading"

\* C11 as stated: once a capability has thrown a fatal error the run is
\* Failed, whatever retry budget remains.
C11_Original == caught.error = "fatal" => Failed

\* C12: with a concurrency limit <= 0 the run ends at startup: the browser is
\* never launched, no capability is invoked and the download phase is never
\* entered.
C12_RejectsNonPositive ==
    concurrency <= 0 =>
        /\ pc \in {"config", "exited"}
        /\ launchCalls = 0
        /\ login.calls = 0 /\ discover.calls = 0 /\ DownloadCalls = 0

C14_SlidingWindow ==
    /\ (pc = "downloading" /\ Buffer(dl) # {}) => Active(dl) = concurrency
    /\ \A i \in Buffer(dl) : \A j \in DOMAIN dl : j > i => j \in Buffer(dl)
    /\ (pc # "downloading" /\ Buffer(dl) # {}) =>
          /\ Failed /\ failedIn = "download"
          /\ \A i \in DOMAIN dl : dl[i].st \notin {"running", "waiting"}

\* C14 witness: with two slots, the third task was started when the second
\* completed, the first still being on its first invocation
C14_Witness ==
    /\ pc = "downloading"
    /\ concurrency = 2
    /\ Len(dl) = 3
    /\ dl[1].st = "running" /\ dl[1].calls = 1
    /\ dl[2].st = "ok"
    /\ dl[3].st = "running"

\* C14 as stated: whenever a running task reaches a terminal state (completed
\* or retries exhausted) while a task is in the buffer, the head of the buffer
\* is started in the same step.
C14_Original ==
    [][\A i \in DOMAIN dl :
          (/\ pc = "downloading"
           /\ dl[i].st = "running"
           /\ dl'[i].st \in {"ok", "error"}
           /\ Buffer(dl) # {})
          => dl'[BufferHead(dl)].st = "running"]_vars

\* C15: while a task waits in its backoff, every other running download can
\* complete, its completion leaves the waiting task as it is, and the slot it
\* frees is refilled from the buffer at once.
C15_WaitSuspendsOnlyOwner ==
    \A i, j \in DOMAIN dl :
        (pc = "downloading" /\ dl[i].st = "waiting" /\ dl[j].st = "running") =>
            ENABLED (/\ DownloadResolve(j)
                     /\ dl'[j].st = "ok"
                     /\ dl'[i] = dl[i]
                     /\ Buffer(dl) # {} => dl'[BufferHead(dl)].st = "running")

\* C15 witness: the first task waits in its backoff, the second has completed
\* and the third has taken the freed slot
C15_Witness ==
    /\ pc = "downloading"
    /\ concurrency = 2
    /\ Len(dl) = 3
    /\ dl[1].st = "waiting" /\ dl[1].calls = 1
    /\ dl[2].st = "ok"
    /\ dl[3].st = "running"

\* C16 (as amended): once a task's download has exhausted its retries -- the
\* one failure that ends the download phase -- every inner subscription is
\* torn down and no performDownload invocation is started afterwards: no
\* retry of a task that was waiting or running, no first attempt of a
\* buffered task.
C16_AbortStopsDownloads ==
    [][failedIn' = "download" =>
          /\ \A j \in DOMAIN dl' : dl'[j].st \notin {"running", "waiting"}
          /\ failedIn = "download" => dl' = dl]_vars

\* C16 witness: the process exited after one task exhausted its retries,
\* another task's pending backoff wait was abandoned and a third was never
\* started
C16_Witness ==
    /\ pc = "exited"
    /\ failedIn = "download"
    /\ \E i, j, k \in DOMAIN dl :
          /\ dl[i].st = "error"
          /\ dl[j].st = "unsubscribed" /\ dl[j].inflight = 0 /\ dl[j].index > 0
          /\ dl[k].st = "buffered" /\ dl[k].calls = 0

\* C16 as stated: after a capability signalled a fatal condition during the
\* download phase no performDownload invocation is started.
C16_Original ==
    [][(caught.error = "fatal" /\ caught.where = "download") => DownloadCalls' = DownloadCalls]_vars

\* C17: the task array handed to the download phase is exactly what the
\* successful getDownloadTasks invocation emitted, in order; nothing emitted
\* by an earlier, failed invocation is in it (nor in the buffer of a
\* subscription still running).
C17_DiscoveryFromScratch ==
    /\ \A k \in DOMAIN emitted : emitted[k] = [id |-> k, run |-> discover.calls]
    /\ discover.st = "ok" =>
          \A k \in DOMAIN tasks : tasks[k] = [id |-> k, run |-> discover.calls]

\* C17 witness: discovery succeeded on its second invocation with two tasks
C17_Witness ==
    /\ discover.st = "ok"
    /\ discover.calls = 2
    /\ Len(tasks) = 2
    /\ pc = "download"

\* C18: when discovery succeeded with no task, the download phase completes
\* at subscription, whatever the concurrency: performDownload is never
\* invoked, the result array is empty, reportResults is invoked once with the
\* empty array, and unless reportResults or browser.close() throws the run
\* ends in Done.
C18_EmptyTaskList ==
    (discover.st = "ok" /\ tasks = <<>>) =>
        /\ pc \in {"download", "report", "close", "closing", "done", "failed", "exited"}
        /\ DownloadCalls = 0
        /\ results = <<>>
        /\ failedIn \in {"none", "report", "close"}
        /\ pc \in {"download", "report"} <=> reportCalls = 0
        /\ reportCalls <= 1
        /\ reported = <<>>
        /\ (Terminal /\ failedIn = "none") => pc = "done"

\* C18 witness: a run with no task and concurrency 0 that ended in Done
C18_Witness ==
    /\ pc = "done"
    /\ discover.st = "ok"
    /\ tasks = <<>>
    /\ concurrency = 0
    /\ reportCalls = 1

\* tasks that were started and have not reached a terminal state
DispatchedNotTerminal ==
    {i \in DOMAIN dl : dl[i].calls > 0 /\ dl[i].st \notin {"ok", "error", "unsubscribed"}}

\* C19: a task holds its slot from its first invocation until it completes
\* or errors, backoff waits included: the tasks started and not yet terminal
\* are never more than `concurrency`, and while some of them only wait, the
\* buffered tasks stay in the buffer.
C19_SlotHeldWhileWaiting ==
    /\ Cardinality(DispatchedNotTerminal) <= concurrency
    /\ \A i \in DOMAIN dl : dl[i].st = "waiting" => i \in DispatchedNotTerminal
    /\ \A i \in Buffer(dl) : dl[i].calls = 0

\* C19 witness: with one slot, the first task waits in its backoff and the
\* second is still in the buffer
C19_Witness ==
    /\ pc = "downloading"
    /\ concurrency = 1
    /\ dl[1].st = "waiting"
    /\ 2 \in Buffer(dl)

\* C20: with a concurrency of at least 1, a run in which every pending event
\* is eventually handled reaches a terminal state (Done or exited).
C20_Terminates == concurrency >= 1 => <>Terminal

\* C20 witness: a run with one slot and three tasks, one of which used its
\* whole retry budget, that ended in Done
C20_Witness ==
    /\ pc = "done"
    /\ concurrency = 1
    /\ retries = 1
    /\ Len(tasks) = 3
    /\ \E i \in DOMAIN dl : dl[i].calls = 2

=============================================================================
